---- MODULE Spec2Model ----
(***************************************************************************)
(* Model of src/main.py: a Telegram bot that logs income entries and       *)
(* validates delivery orders extracted by a completion provider.           *)
(*                                                                         *)
(* Python strings are modelled as sequences of Unicode code points, so     *)
(* that lower(), strip(), split() and the regular expressions are computed *)
(* character by character, as the interpreter computes them.               *)
(***************************************************************************)
EXTENDS Integers, Sequences, FiniteSets, TLC

VARIABLES
    today,                \* datetime.now().date(), as a day number
    user_income_storage,  \* user_id -> day -> total (defaultdict of defaultdict)
    update,               \* the Update being handled (chat, thread, sender, text)
    pc,                   \* position of the handler coroutine
    locals,               \* local variables of the handler
    trace,                \* what the handler has done for this update (observer)
    credits,              \* every add_income call made so far (observer)
    suspended             \* handler coroutines parked at an await (concurrent dispatch)

vars == <<today, user_income_storage, update, pc, locals, trace, credits, suspended>>

-----------------------------------------------------------------------------
(* Bounds of the model.                                                    *)

MaxDay == 1          \* days are 0..MaxDay
MaxCredits == 2      \* no update is received after this many credits
MaxTextLen == 2      \* enumerated texts are at most this long
MaxLedgerOps == 3    \* ledger harness: number of add_income calls
MaxInFlight == 2     \* concurrent dispatch: handlers parked at an await
MaxLines == 3        \* extractor harness: lines of a completion
MaxTail == 7         \* phone harness: digits after the leading digits

-----------------------------------------------------------------------------
(* Python str operations on sequences of code points.                      *)

\* str.isspace() / regex \s for the characters the model uses:
\* \t \n \v \f \r, the separators 0x1c..0x1f, space, NEL and NBSP.
IsSpace(c) == c \in {9, 10, 11, 12, 13, 28, 29, 30, 31, 32, 133, 160}

\* regex \d (ASCII decimal digits).
IsDigit(c) == c \in 48..57

\* str.lower() of one character: Latin A-Z, Cyrillic 0x400-0x42F.
LowerChar(c) ==
    IF c \in 65..90 THEN c + 32
    ELSE IF c \in 1040..1071 THEN c + 32
    ELSE IF c \in 1024..1039 THEN c + 80
    ELSE c

lower(s) == <<>> \o [i \in 1..Len(s) |-> LowerChar(s[i])]

\* s[i-1:j] for 1 <= i, j <= Len(s); empty when j < i.
Slice(s, i, j) == <<>> \o [k \in 1..(j - i + 1) |-> s[i + k - 1]]

\* sub occurs in s starting at position i.
OccursAt(sub, s, i) ==
    /\ i >= 1
    /\ i + Len(sub) - 1 <= Len(s)
    /\ \A k \in 1..Len(sub) : s[i + k - 1] = sub[k]

\* Python's `sub in s`.
Contains(s, sub) == \E i \in 1..(Len(s) + 1) : OccursAt(sub, s, i)

\* str.startswith(prefix).
StartsWith(s, prefix) == OccursAt(prefix, s, 1)

\* str.strip(): remove leading and trailing whitespace.
strip(s) ==
    LET keep == {i \in 1..Len(s) : ~IsSpace(s[i])}
    IN  IF keep = {} THEN <<>>
        ELSE LET lo == CHOOSE i \in keep : \A j \in keep : i <= j
                 hi == CHOOSE i \in keep : \A j \in keep : i >= j
             IN  Slice(s, lo, hi)

\* str.split('\n'): always at least one piece.
RECURSIVE SplitFrom(_, _, _)
SplitFrom(s, sep, i) ==
    LET cuts == {j \in i..Len(s) : s[j] = sep}
    IN  IF cuts = {} THEN <<Slice(s, i, Len(s))>>
        ELSE LET j == CHOOSE x \in cuts : \A y \in cuts : x <= y
             IN  <<Slice(s, i, j - 1)>> \o SplitFrom(s, sep, j + 1)

split(s, sep) == SplitFrom(s, sep, 1)

\* sep.join(parts).
RECURSIVE join(_, _)
join(sep, parts) ==
    IF Len(parts) = 0 THEN <<>>
    ELSE IF Len(parts) = 1 THEN parts[1]
    ELSE parts[1] \o sep \o join(sep, Tail(parts))

-----------------------------------------------------------------------------
(* The regular expressions of PRICE_MAP.  A pattern is a sequence of       *)
(* alternatives; an alternative is a literal, optionally anchored at the   *)
(* start of the string (^), optionally followed by the group (\.|$|\s).    *)

Lit(s) == [start |-> FALSE, lit |-> s, after |-> "none"]
AtStart(s) == [start |-> TRUE, lit |-> s, after |-> "none"]
LitThenDotEndSpace(s) == [start |-> FALSE, lit |-> s, after |-> "dot_end_space"]

\* One alternative matches the text at position i.
AltMatchesAt(alt, text, i) ==
    /\ OccursAt(alt.lit, text, i)
    /\ alt.start => i = 1
    /\ alt.after = "dot_end_space" =>
          LET n == i + Len(alt.lit)
          IN  \/ n = Len(text) + 1                       \* $
              \/ n <= Len(text) /\ text[n] = 46          \* \.
              \/ n <= Len(text) /\ IsSpace(text[n])      \* \s (covers $ before a final \n)

\* re.search(pattern, text).
re_search(pattern, text) ==
    \E k \in 1..Len(pattern) :
        \E i \in 1..(Len(text) - Len(pattern[k].lit) + 1) :
            AltMatchesAt(pattern[k], text, i)

\* The table with the plus sign anchored like the minus sign: ^\+|^-
PRICE_MAP_PlusAtStart == <<
    [pattern |-> <<AtStart(<<43>>), AtStart(<<45>>)>>, amount |-> 10],            \* ^\+|^-
    [pattern |-> <<LitThenDotEndSpace(<<1084, 1082>>), Lit(<<1052, 1050>>),
                   Lit(<<1052, 1082>>), Lit(<<1084, 1082>>)>>, amount |-> 15], \* mk(\.|$|\s)|MK|Mk|mk (Cyrillic)
    \* "mk dop <colour>" in Cyrillic: sinyaya, krasnaya, oranzhevaya, salatovaya,
    \* korichnevaya, svetlo-seraya, rozovaya, temno-seraya, golubaya
    [pattern |-> <<Lit(<<1084, 1082, 32, 1076, 1086, 1087, 32, 1089, 1080, 1085, 1103, 1103>>)>>, amount |-> 23],
    [pattern |-> <<Lit(<<1084, 1082, 32, 1076, 1086, 1087, 32, 1082, 1088, 1072, 1089, 1085, 1072, 1103>>)>>, amount |-> 31],
    [pattern |-> <<Lit(<<1084, 1082, 32, 1076, 1086, 1087, 32, 1086, 1088, 1072, 1085, 1078, 1077, 1074, 1072, 1103>>)>>, amount |-> 40],
    [pattern |-> <<Lit(<<1084, 1082, 32, 1076, 1086, 1087, 32, 1089, 1072, 1083, 1072, 1090, 1086, 1074, 1072, 1103>>)>>, amount |-> 48],
    [pattern |-> <<Lit(<<1084, 1082, 32, 1076, 1086, 1087, 32, 1082, 1086, 1088, 1080, 1095, 1085, 1077, 1074, 1072, 1103>>)>>, amount |-> 57],
    [pattern |-> <<Lit(<<1084, 1082, 32, 1076, 1086, 1087, 32, 1089, 1074, 1077, 1090, 1083, 1086, 45, 1089, 1077, 1088, 1072, 1103>>)>>, amount |-> 65],
    [pattern |-> <<Lit(<<1084, 1082, 32, 1076, 1086, 1087, 32, 1088, 1086, 1079, 1086, 1074, 1072, 1103>>)>>, amount |-> 74],
    [pattern |-> <<Lit(<<1084, 1082, 32, 1076, 1086, 1087, 32, 1090, 1077, 1084, 1085, 1086, 45, 1089, 1077, 1088, 1072, 1103>>)>>, amount |-> 82],
    [pattern |-> <<Lit(<<1084, 1082, 32, 1076, 1086, 1087, 32, 1075, 1086, 1083, 1091, 1073, 1072, 1103>>)>>, amount |-> 91]
>>

\* The table with a rule of its own for the minus sign, which debits.
PRICE_MAP_MinusDebits == <<
    [pattern |-> <<Lit(<<43>>)>>, amount |-> 10],                             \* \+
    [pattern |-> <<LitThenDotEndSpace(<<1084, 1082>>), Lit(<<1052, 1050>>),
                   Lit(<<1052, 1082>>), Lit(<<1084, 1082>>)>>, amount |-> 15], \* mk(\.|$|\s)|MK|Mk|mk (Cyrillic)
    \* "mk dop <colour>" in Cyrillic: sinyaya, krasnaya, oranzhevaya, salatovaya,
    \* korichnevaya, svetlo-seraya, rozovaya, temno-seraya, golubaya
    [pattern |-> <<Lit(<<1084, 1082, 32, 1076, 1086, 1087, 32, 1089, 1080, 1085, 1103, 1103>>)>>, amount |-> 23],
    [pattern |-> <<Lit(<<1084, 1082, 32, 1076, 1086, 1087, 32, 1082, 1088, 1072, 1089, 1085, 1072, 1103>>)>>, amount |-> 31],
    [pattern |-> <<Lit(<<1084, 1082, 32, 1076, 1086, 1087, 32, 1086, 1088, 1072, 1085, 1078, 1077, 1074, 1072, 1103>>)>>, amount |-> 40],
    [pattern |-> <<Lit(<<1084, 1082, 32, 1076, 1086, 1087, 32, 1089, 1072, 1083, 1072, 1090, 1086, 1074, 1072, 1103>>)>>, amount |-> 48],
    [pattern |-> <<Lit(<<1084, 1082, 32, 1076, 1086, 1087, 32, 1082, 1086, 1088, 1080, 1095, 1085, 1077, 1074, 1072, 1103>>)>>, amount |-> 57],
    [pattern |-> <<Lit(<<1084, 1082, 32, 1076, 1086, 1087, 32, 1089, 1074, 1077, 1090, 1083, 1086, 45, 1089, 1077, 1088, 1072, 1103>>)>>, amount |-> 65],
    [pattern |-> <<Lit(<<1084, 1082, 32, 1076, 1086, 1087, 32, 1088, 1086, 1079, 1086, 1074, 1072, 1103>>)>>, amount |-> 74],
    [pattern |-> <<Lit(<<1084, 1082, 32, 1076, 1086, 1087, 32, 1090, 1077, 1084, 1085, 1086, 45, 1089, 1077, 1088, 1072, 1103>>)>>, amount |-> 82],
    [pattern |-> <<Lit(<<1084, 1082, 32, 1076, 1086, 1087, 32, 1075, 1086, 1083, 1091, 1073, 1072, 1103>>)>>, amount |-> 91],
    [pattern |-> <<AtStart(<<45>>)>>, amount |-> -10]                        \* ^-
>>

\* The table, in dict (insertion) order.
PRICE_MAP == <<
    [pattern |-> <<Lit(<<43>>), AtStart(<<45>>)>>, amount |-> 10],            \* \+|^-
    [pattern |-> <<LitThenDotEndSpace(<<1084, 1082>>), Lit(<<1052, 1050>>),
                   Lit(<<1052, 1082>>), Lit(<<1084, 1082>>)>>, amount |-> 15], \* mk(\.|$|\s)|MK|Mk|mk (Cyrillic)
    \* "mk dop <colour>" in Cyrillic: sinyaya, krasnaya, oranzhevaya, salatovaya,
    \* korichnevaya, svetlo-seraya, rozovaya, temno-seraya, golubaya
    [pattern |-> <<Lit(<<1084, 1082, 32, 1076, 1086, 1087, 32, 1089, 1080, 1085, 1103, 1103>>)>>, amount |-> 23],
    [pattern |-> <<Lit(<<1084, 1082, 32, 1076, 1086, 1087, 32, 1082, 1088, 1072, 1089, 1085, 1072, 1103>>)>>, amount |-> 31],
    [pattern |-> <<Lit(<<1084, 1082, 32, 1076, 1086, 1087, 32, 1086, 1088, 1072, 1085, 1078, 1077, 1074, 1072, 1103>>)>>, amount |-> 40],
    [pattern |-> <<Lit(<<1084, 1082, 32, 1076, 1086, 1087, 32, 1089, 1072, 1083, 1072, 1090, 1086, 1074, 1072, 1103>>)>>, amount |-> 48],
    [pattern |-> <<Lit(<<1084, 1082, 32, 1076, 1086, 1087, 32, 1082, 1086, 1088, 1080, 1095, 1085, 1077, 1074, 1072, 1103>>)>>, amount |-> 57],
    [pattern |-> <<Lit(<<1084, 1082, 32, 1076, 1086, 1087, 32, 1089, 1074, 1077, 1090, 1083, 1086, 45, 1089, 1077, 1088, 1072, 1103>>)>>, amount |-> 65],
    [pattern |-> <<Lit(<<1084, 1082, 32, 1076, 1086, 1087, 32, 1088, 1086, 1079, 1086, 1074, 1072, 1103>>)>>, amount |-> 74],
    [pattern |-> <<Lit(<<1084, 1082, 32, 1076, 1086, 1087, 32, 1090, 1077, 1084, 1085, 1086, 45, 1089, 1077, 1088, 1072, 1103>>)>>, amount |-> 82],
    [pattern |-> <<Lit(<<1084, 1082, 32, 1076, 1086, 1087, 32, 1075, 1086, 1083, 1091, 1073, 1072, 1103>>)>>, amount |-> 91]
>>

\* sorted(items, key=lambda x: -x[1]): stable, so equal amounts keep dict
\* order.  An item's place is one more than the number of items that sort
\* before it.
sorted_desc(items) ==
    LET Place(i) ==
            1 + Cardinality({j \in 1..Len(items) :
                    \/ items[j].amount > items[i].amount
                    \/ items[j].amount = items[i].amount /\ j < i})
    IN  <<>> \o [k \in 1..Len(items) |-> items[CHOOSE i \in 1..Len(items) : Place(i) = k]]

\* The rules in the order extract_amount tries them.
RulesInOrder == sorted_desc(PRICE_MAP)

\* The for loop of extract_amount over rules, on the lower-cased text.
RECURSIVE FirstMatch(_, _, _)
FirstMatch(rules, text, k) ==
    IF k > Len(rules) THEN 0
    ELSE IF re_search(rules[k].pattern, text) THEN rules[k].amount
    ELSE FirstMatch(rules, text, k + 1)

\* extract_amount without the sort: the rules are tried in dict order.
extract_amount_DictOrder(text) == FirstMatch(PRICE_MAP, lower(text), 1)

extract_amount(text) == FirstMatch(RulesInOrder, lower(text), 1)

\* re.search(r"(^|\s)[\+\-]", user_text)
HasSignToken(text) ==
    \E i \in 1..Len(text) :
        /\ text[i] \in {43, 45}
        /\ i = 1 \/ IsSpace(text[i - 1])

-----------------------------------------------------------------------------
(* The income ledger: user_income_storage = defaultdict(lambda:            *)
(* defaultdict(int)).  A store is a function from the user ids seen so far *)
(* to functions from the days seen so far to totals.                       *)

EmptyStore == <<>>

\* store[user][day] as a plain read that creates nothing.
Bucket(store, user, day) ==
    IF user \in DOMAIN store /\ day \in DOMAIN store[user]
    THEN store[user][day] ELSE 0

\* user_income_storage[user_id]: the defaultdict creates a missing user.
TouchUser(store, user) ==
    IF user \in DOMAIN store THEN store ELSE store @@ (user :> <<>>)

\* add_income with = for +=: the bucket is overwritten.
add_income_Overwrites(store, now, user_id, amount) ==
    LET s1 == TouchUser(store, user_id)
        days == s1[user_id]
        days2 == IF now \in DOMAIN days
                 THEN [days EXCEPT ![now] = amount]
                 ELSE days @@ (now :> amount)
    IN  [s1 EXCEPT ![user_id] = days2]

\* add_income that assigns a fresh table holding only the credited bucket:
\* the buckets of other users and of other days are lost.
add_income_Rebuilds(store, now, user_id, amount) ==
    user_id :> (now :> (Bucket(store, user_id, now) + amount))

\* add_income over a table whose users share one inner dict (a default
\* factory that returns the same object): a credit shows in every user's
\* buckets.
add_income_SharedDays(store, now, user_id, amount) ==
    LET s1 == TouchUser(store, user_id)
        days == s1[user_id]
        days2 == IF now \in DOMAIN days
                 THEN [days EXCEPT ![now] = @ + amount]
                 ELSE days @@ (now :> (0 + amount))
    IN  [u \in DOMAIN s1 |-> days2]

\* user_income_storage[user_id][today] += amount
add_income(store, now, user_id, amount) ==
    LET s1 == TouchUser(store, user_id)
        days == s1[user_id]
        days2 == IF now \in DOMAIN days
                 THEN [days EXCEPT ![now] = @ + amount]
                 ELSE days @@ (now :> (0 + amount))
    IN  [s1 EXCEPT ![user_id] = days2]

\* user_income_storage[user_id].get(today, 0)
get_income_today(store, now, user_id) ==
    LET days == TouchUser(store, user_id)[user_id]
    IN  IF now \in DOMAIN days THEN days[now] ELSE 0

-----------------------------------------------------------------------------
(* is_valid_phone                                                          *)

PhonePrefixes == {<<51, 55, 53>>, <<56, 48, 50, 57>>, <<56, 48, 52, 52>>,
                  <<56, 48, 51, 51>>, <<56, 48, 50, 53>>}  \* 375 8029 8044 8033 8025

MinPhoneDigits == 9

\* is_valid_phone that tests the prefix on the string as given, before
\* the non-digits are removed.
is_valid_phone_RawPrefix(phone) ==
    LET digits == SelectSeq(phone, IsDigit)
    IN  /\ \E p \in PhonePrefixes : StartsWith(phone, p)
        /\ Len(digits) >= MinPhoneDigits

is_valid_phone(phone) ==
    LET digits == SelectSeq(phone, IsDigit)     \* re.sub(r'\D', '', phone)
    IN  /\ \E p \in PhonePrefixes : StartsWith(digits, p)
        /\ Len(digits) >= MinPhoneDigits

-----------------------------------------------------------------------------
(* extract_fields                                                          *)

NoFields == [interval |-> <<>>, address |-> <<>>, phone |-> <<>>, comment |-> <<>>]

\* "Kommentarij zakazchika:" (Cyrillic), the comment marker
CommentMarker == <<1050, 1086, 1084, 1084, 1077, 1085, 1090, 1072, 1088, 1080, 1081,
                   32, 1079, 1072, 1082, 1072, 1079, 1095, 1080, 1082, 1072, 58>>
\* "blizhajshee", "kak mozhno skoree" (Cyrillic)
SoonWord == <<1073, 1083, 1080, 1078, 1072, 1081, 1096, 1077, 1077>>
AsapWords == <<1082, 1072, 1082, 32, 1084, 1086, 1078, 1085, 1086, 32,
               1089, 1082, 1086, 1088, 1077, 1077>>

\* re.search(r'\d{1,2}:\d{2}', line)
HasClockTime(line) ==
    \E i \in 1..Len(line) :
        /\ i + 3 <= Len(line)
        /\ IsDigit(line[i]) /\ line[i + 1] = 58
        /\ IsDigit(line[i + 2]) /\ IsDigit(line[i + 3])

PhoneRunLen == 7

\* re.search(r'\+?\d{7,}', line)
HasDigitRun(line) ==
    \E i \in 1..Len(line) :
        /\ i + PhoneRunLen - 1 <= Len(line)
        /\ \A k \in 0..(PhoneRunLen - 1) : IsDigit(line[i + k])

\* re.search(r'\d+', s)
HasDigit(s) == \E i \in 1..Len(s) : IsDigit(s[i])

IsDigitOrPlus(c) == IsDigit(c) \/ c = 43

\* line.split(marker)[-1]: what follows the last occurrence of the marker.
AfterLast(line, marker) ==
    LET occ == {i \in 1..Len(line) : OccursAt(marker, line, i)}
    IN  IF occ = {} THEN line
        ELSE LET last == CHOOSE i \in occ : \A j \in occ : i >= j
             IN  Slice(line, last + Len(marker), Len(line))

\* The for loop body with the comment test ahead of the interval test.
ClassifyLine_CommentFirst(fields, line) ==
    IF Contains(line, CommentMarker)
    THEN [fields EXCEPT !.comment = strip(AfterLast(line, CommentMarker))]
    ELSE IF \/ HasClockTime(line)
            \/ Contains(lower(line), SoonWord)
            \/ Contains(lower(line), AsapWords)
    THEN [fields EXCEPT !.interval = strip(line)]
    ELSE IF HasDigitRun(line)
    THEN [fields EXCEPT !.phone = SelectSeq(strip(line), IsDigitOrPlus)]
    ELSE [fields EXCEPT !.address = strip(line)]

\* The body of the for loop: the field a line goes to and the value stored.
ClassifyLine(fields, line) ==
    IF \/ HasClockTime(line)
       \/ Contains(lower(line), SoonWord)
       \/ Contains(lower(line), AsapWords)
    THEN [fields EXCEPT !.interval = strip(line)]
    ELSE IF Contains(line, CommentMarker)
    THEN [fields EXCEPT !.comment = strip(AfterLast(line, CommentMarker))]
    ELSE IF HasDigitRun(line)
    THEN [fields EXCEPT !.phone = SelectSeq(strip(line), IsDigitOrPlus)]
    ELSE [fields EXCEPT !.address = strip(line)]

RECURSIVE ClassifyLines(_, _, _)
ClassifyLines(fields, lines, k) ==
    IF k > Len(lines) THEN fields
    ELSE ClassifyLines(ClassifyLine(fields, lines[k]), lines, k + 1)

extract_fields(text) == ClassifyLines(NoFields, split(strip(text), 10), 1)

-----------------------------------------------------------------------------
(* handle_message: the access filter and the texts of the messages sent.   *)
(* Chat and user ids are written as strings: the real chat ids do not fit  *)
(* a 32-bit integer.                                                       *)

ALLOWED_CONTEXTS ==
    ("-1002079167705" :> <<7340>>) @@ ("-1002387655137" :> <<9>>) @@
    ("-1002423500927" :> <<4>>) @@ ("-1002178818697" :> <<4>>)

\* message.message_thread_id or 0; an absent thread id (None) is <<>>.
ThreadIdOf(message_thread_id) ==
    IF message_thread_id = <<>> \/ message_thread_id[1] = 0
    THEN 0 ELSE message_thread_id[1]

\* The filter with the thread test left out: any listed chat passes.
InAllowedContext_AnyThread(chat_id, thread_id) ==
    chat_id \in DOMAIN ALLOWED_CONTEXTS

\* The negation of the condition of line 107.
InAllowedContext(chat_id, thread_id) ==
    /\ chat_id \in DOMAIN ALLOWED_CONTEXTS
    /\ \E i \in 1..Len(ALLOWED_CONTEXTS[chat_id]) : ALLOWED_CONTEXTS[chat_id][i] = thread_id

\* str(n) for n >= 0.
RECURSIVE IntToStr(_)
IntToStr(n) ==
    IF n < 10 THEN <<48 + n>> ELSE IntToStr(n \div 10) \o <<48 + (n % 10)>>

\* The direct message with the total written where the amount belongs.
IncomeText_TotalForAmount(amount, total_today) ==
    <<43>> \o IntToStr(total_today) \o <<32, 66, 89, 78, 46, 10>>
    \o <<1044, 1086, 1093, 1086, 1076, 58, 32>> \o IntToStr(total_today)
    \o <<32, 66, 89, 78>>

\* f"+{amount} BYN.\nDohod: {total_today} BYN"
IncomeText(amount, total_today) ==
    <<43>> \o IntToStr(amount) \o <<32, 66, 89, 78, 46, 10>>
    \o <<1044, 1086, 1093, 1086, 1076, 58, 32>> \o IntToStr(total_today)
    \o <<32, 66, 89, 78>>

\* Line 171: "Vash dohod za segodnya: <total> BYN" (Cyrillic).
IncomeTodayText(total) ==
    <<1042, 1072, 1096, 32, 1076, 1086, 1093, 1086, 1076, 32, 1079, 1072, 32, 1089, 1077, 1075, 1086, 1076, 1085, 1103, 58, 32>>
    \o IntToStr(total) \o <<32, 66, 89, 78>>

\* The labels appended to `missing` (Cyrillic): address with house number,
\* time interval, phone number.
LabelAddress == <<1072, 1076, 1088, 1077, 1089, 32, 1089, 32, 1085, 1086, 1084,
                  1077, 1088, 1086, 1084, 32, 1076, 1086, 1084, 1072>>
LabelInterval == <<1074, 1088, 1077, 1084, 1077, 1085, 1085, 1086, 1081, 32,
                   1080, 1085, 1090, 1077, 1088, 1074, 1072, 1083>>
LabelPhone == <<1085, 1086, 1084, 1077, 1088, 32, 1090, 1077, 1083, 1077, 1092,
                1086, 1085, 1072>>

ErrorReply == [kind |-> "processing_error", text |-> <<>>]

\* The missing list without the house-number test: any address will do.
MissingOf_AnyAddress(data) ==
    (IF data.address = <<>> THEN <<LabelAddress>> ELSE <<>>)
    \o (IF data.interval = <<>> THEN <<LabelInterval>> ELSE <<>>)
    \o (IF data.phone = <<>> THEN <<LabelPhone>> ELSE <<>>)

\* Lines 135-141: the list `missing`, as far as the code builds it.
MissingOf(data) ==
    (IF data.address = <<>> \/ ~HasDigit(data.address) THEN <<LabelAddress>> ELSE <<>>)
    \o (IF data.interval = <<>> THEN <<LabelInterval>> ELSE <<>>)
    \o (IF data.phone = <<>> THEN <<LabelPhone>> ELSE <<>>)

\* Line 142: the elif branch that rejects the phone.
PhoneRejected(data) == data.phone # <<>> /\ ~is_valid_phone(data.phone)

\* The rendering without the placeholder: an empty comment stays empty.
Formatted_NoDash(data) ==
    data.interval \o <<10>> \o data.address \o <<10>> \o data.phone \o <<10>>
    \o CommentMarker \o <<32>> \o data.comment

\* Lines 157-160: the four-line rendering; the dash is U+2014.
Formatted(data) ==
    data.interval \o <<10>> \o data.address \o <<10>> \o data.phone \o <<10>>
    \o CommentMarker \o <<32>>
    \o (IF data.comment # <<>> THEN data.comment ELSE <<8212>>)

\* The order path with the missing-fields test ahead of the phone test.
OrderReply_MissingFirst(data) ==
    IF MissingOf(data) # <<>>
    THEN [kind |-> "missing_fields", text |-> join(<<44, 32>>, MissingOf(data))]
    ELSE IF PhoneRejected(data) THEN [kind |-> "phone_rejected", text |-> <<>>]
    ELSE [kind |-> "accepted", text |-> Formatted(data)]

\* The reply the order path decides on (lines 142-161).  The fixed wording
\* of a message is its kind; `text` is the part the code computes.
OrderReply(data) ==
    IF PhoneRejected(data) THEN [kind |-> "phone_rejected", text |-> <<>>]
    ELSE IF MissingOf(data) # <<>>
    THEN [kind |-> "missing_fields", text |-> join(<<44, 32>>, MissingOf(data))]
    ELSE [kind |-> "accepted", text |-> Formatted(data)]

\* A send through the transport: bot.send_message(chat_id=...) or
\* message.reply_text(...), which answers in the chat of the message.
Send(via, chat, body) ==
    [via |-> via, chat |-> chat, kind |-> body.kind, text |-> body.text,
     status |-> "pending"]

NoLocals == [amount |-> 0, total_today |-> 0, parsed |-> <<>>,
             data |-> NoFields, missing |-> <<>>]

NoTrace == [classified |-> 0, provider |-> "not_called", provider_calls |-> 0,
            logged |-> 0, sends |-> <<>>]

NoUpdate == [chat_id |-> "", message_thread_id |-> <<>>, from_user |-> "", text |-> <<>>]

\* The last send of the trace, with its status replaced.
SettleLast(sends, status) == [sends EXCEPT ![Len(sends)].status = status]

-----------------------------------------------------------------------------
(* The state machine.  The application is built without concurrent         *)
(* updates, so the dispatcher awaits one handler before it starts the      *)
(* next; a handler is one coroutine that stops at its awaits and at the    *)
(* (blocking) provider call.                                               *)
(*   pc: idle | await_dm (118) | call_provider (126) | await_reply         *)
(*       (143, 150, 161) | await_error_reply (165) | done | raised         *)

Init ==
    /\ today = 0
    /\ user_income_storage = EmptyStore
    /\ update = NoUpdate
    /\ pc = "idle"
    /\ locals = NoLocals
    /\ trace = NoTrace
    /\ credits = <<>>
    /\ suspended = <<>>

\* The entry with the return of line 121 one level out: a sign-token text
\* that matches no price rule is dropped.
EntryBranch_DropsUnpriced(allowed, sign, amount) ==
    IF ~allowed THEN "ignore"
    ELSE IF sign /\ amount # 0 THEN "income"
    ELSE IF sign THEN "ignore"
    ELSE "order"

\* Lines 107-114: where the handler goes, given the outcome of the access
\* filter, of the sign-token search and of extract_amount.
EntryBranch(allowed, sign, amount) ==
    IF ~allowed THEN "ignore"
    ELSE IF sign /\ amount # 0 THEN "income"
    ELSE "order"

\* Lines 102-126: handle_message from its start to its first suspension.
\* extract_amount is called only when line 112 finds a sign token.
handle_message(u) ==
    /\ pc \in {"idle", "done", "raised"}
    /\ Len(credits) < MaxCredits
    /\ update' = u
    /\ LET allowed == InAllowedContext(u.chat_id, ThreadIdOf(u.message_thread_id))
           sign == allowed /\ HasSignToken(u.text)
           amount == IF sign THEN extract_amount(u.text) ELSE 0
           branch == EntryBranch(allowed, sign, amount)
           store == add_income(user_income_storage, today, u.from_user, amount)
           total_today == store[u.from_user][today]
       IN  CASE branch = "ignore" ->
                 /\ pc' = "done"
                 /\ locals' = NoLocals
                 /\ trace' = NoTrace
                 /\ UNCHANGED <<user_income_storage, credits>>
             [] branch = "income" ->
                 /\ user_income_storage' = store
                 /\ credits' = Append(credits,
                        [user |-> u.from_user, day |-> today, amount |-> amount])
                 /\ locals' = [NoLocals EXCEPT !.amount = amount,
                                               !.total_today = total_today]
                 /\ trace' = [NoTrace EXCEPT
                        !.classified = 1,
                        !.sends = <<Send("send_message", u.from_user,
                                         [kind |-> "income",
                                          text |-> IncomeText(amount, total_today)])>>]
                 /\ pc' = "await_dm"
             [] branch = "order" ->
                 /\ locals' = [NoLocals EXCEPT !.amount = amount]
                 /\ trace' = [NoTrace EXCEPT
                        !.classified = IF sign THEN 1 ELSE 0,
                        !.provider = "pending",
                        !.provider_calls = 1]
                 /\ pc' = "call_provider"
                 /\ UNCHANGED <<user_income_storage, credits>>
    /\ UNCHANGED <<today, suspended>>

\* The direct send without its try/except: a failure leaves the handler.
send_message_returns_Unguarded(ok) ==
    /\ pc = "await_dm"
    /\ trace' = [trace EXCEPT
           !.sends = SettleLast(@, IF ok THEN "delivered" ELSE "failed")]
    /\ pc' = IF ok THEN "done" ELSE "raised"
    /\ UNCHANGED <<today, user_income_storage, update, locals, credits, suspended>>

\* Lines 117-121: the direct message returns or raises; either way the
\* handler returns.
send_message_returns(ok) ==
    /\ pc = "await_dm"
    /\ trace' = [trace EXCEPT
           !.sends = SettleLast(@, IF ok THEN "delivered" ELSE "failed")]
    /\ pc' = "done"
    /\ UNCHANGED <<today, user_income_storage, update, locals, credits, suspended>>

\* The provider call with a retry: a failed call is made again.
create_returns_Retries(result) ==
    /\ pc = "call_provider"
    /\ IF result.kind = "completion"
       THEN LET parsed == strip(result.content)
                data == extract_fields(parsed)
            IN  /\ locals' = [locals EXCEPT !.parsed = parsed, !.data = data,
                                            !.missing = MissingOf(data)]
                /\ trace' = [trace EXCEPT
                       !.provider = "returned",
                       !.sends = Append(@, Send("reply_text", update.chat_id,
                                                OrderReply(data)))]
                /\ pc' = "await_reply"
       ELSE /\ locals' = locals
            /\ trace' = [trace EXCEPT
                   !.provider = result.kind,
                   !.logged = @ + 1,
                   !.provider_calls = IF @ < 2 THEN @ + 1 ELSE @]
            /\ pc' = "call_provider"
    /\ UNCHANGED <<today, user_income_storage, update, credits, suspended>>

\* Lines 126-165: the provider call returns.  result.kind is "raise" (the
\* call raises), "no_content" (reading or stripping the content raises) or
\* "completion" (result.content is the text returned).
create_returns(result) ==
    /\ pc = "call_provider"
    /\ IF result.kind = "completion"
       THEN LET parsed == strip(result.content)
                data == extract_fields(parsed)
            IN  /\ locals' = [locals EXCEPT !.parsed = parsed, !.data = data,
                                            !.missing = MissingOf(data)]
                /\ trace' = [trace EXCEPT
                       !.provider = "returned",
                       !.sends = Append(@, Send("reply_text", update.chat_id,
                                                OrderReply(data)))]
                /\ pc' = "await_reply"
       ELSE /\ locals' = locals
            /\ trace' = [trace EXCEPT
                   !.provider = result.kind,
                   !.logged = @ + 1,
                   !.sends = Append(@, Send("reply_text", update.chat_id, ErrorReply))]
            /\ pc' = "await_error_reply"
    /\ UNCHANGED <<today, user_income_storage, update, credits, suspended>>

\* Lines 143-165: a reply of the try block returns, or raises into the
\* except clause, which logs and sends the error reply.
reply_text_returns(ok) ==
    /\ pc = "await_reply"
    /\ IF ok
       THEN /\ trace' = [trace EXCEPT !.sends = SettleLast(@, "delivered")]
            /\ pc' = "done"
       ELSE /\ trace' = [trace EXCEPT
                   !.logged = @ + 1,
                   !.sends = Append(SettleLast(@, "failed"),
                                    Send("reply_text", update.chat_id, ErrorReply))]
            /\ pc' = "await_error_reply"
    /\ UNCHANGED <<today, user_income_storage, update, locals, credits, suspended>>

\* The error reply sent again when it raises: the except clause in a loop.
error_reply_returns_Retries(ok) ==
    /\ pc = "await_error_reply"
    /\ IF ok \/ Len(trace.sends) >= 3
       THEN /\ trace' = [trace EXCEPT
                   !.sends = SettleLast(@, IF ok THEN "delivered" ELSE "failed")]
            /\ pc' = IF ok THEN "done" ELSE "raised"
       ELSE /\ trace' = [trace EXCEPT
                   !.sends = Append(SettleLast(@, "failed"),
                                    Send("reply_text", update.chat_id, ErrorReply))]
            /\ pc' = "await_error_reply"
    /\ UNCHANGED <<today, user_income_storage, update, locals, credits, suspended>>

\* Line 165: the error reply returns, or raises out of handle_message.
error_reply_returns(ok) ==
    /\ pc = "await_error_reply"
    /\ trace' = [trace EXCEPT
           !.sends = SettleLast(@, IF ok THEN "delivered" ELSE "failed")]
    /\ pc' = IF ok THEN "done" ELSE "raised"
    /\ UNCHANGED <<today, user_income_storage, update, locals, credits, suspended>>

\* Lines 168-171: handle_dohod up to its await.  There is no access filter;
\* get_income_today reads the outer defaultdict and so creates the user.
handle_dohod(u) ==
    /\ pc \in {"idle", "done", "raised"}
    /\ update' = u
    /\ user_income_storage' = TouchUser(user_income_storage, u.from_user)
    /\ LET total == get_income_today(user_income_storage, today, u.from_user)
       IN  /\ locals' = [NoLocals EXCEPT !.total_today = total]
           /\ trace' = [NoTrace EXCEPT
                  !.sends = <<Send("reply_text", u.chat_id,
                                   [kind |-> "income_today",
                                    text |-> IncomeTodayText(total)])>>]
    /\ pc' = "await_dohod_reply"
    /\ UNCHANGED <<today, credits, suspended>>

\* Line 171: the reply returns, or raises out of handle_dohod.
dohod_reply_returns(ok) ==
    /\ pc = "await_dohod_reply"
    /\ trace' = [trace EXCEPT
           !.sends = SettleLast(@, IF ok THEN "delivered" ELSE "failed")]
    /\ pc' = IF ok THEN "done" ELSE "raised"
    /\ UNCHANGED <<today, user_income_storage, update, locals, credits, suspended>>

\* Midnight passes: datetime.now().date() changes.
Tick ==
    /\ today < MaxDay
    /\ today' = today + 1
    /\ UNCHANGED <<user_income_storage, update, pc, locals, trace, credits, suspended>>

-----------------------------------------------------------------------------
(* Inputs.                                                                 *)

Users == {"101", "202"}

\* (chat_id, message_thread_id): one allowed context; a listed chat with
\* another chat's thread; a listed chat with no thread; an unlisted chat.
AllowedInputContext == <<"-1002387655137", <<9>>>>
DeniedInputContexts == {<<"-1002387655137", <<4>>>>,
                        <<"-1002423500927", <<>>>>,
                        <<"-1005550000000", <<4>>>>}

TextPlus15 == <<43, 49, 53>>                       \* "+15"
TextMinus5 == <<45, 53>>                           \* "-5"
TextPlusBlue == <<43, 32, 1084, 1082, 32, 1076, 1086, 1087, 32, 1089, 1080, 1085, 1103, 1103>>  \* "+ mk dop sinyaya"
TextBlue == <<1084, 1082, 32, 1076, 1086, 1087, 32, 1089, 1080, 1085, 1103, 1103>>  \* "mk dop sinyaya"
TextInnerMinus == <<120, 32, 45>>                  \* "x -"
TextOrder == <<97, 98>>                            \* "ab"

Texts == {TextPlus15, TextMinus5, TextPlusBlue, TextBlue, TextInnerMinus, TextOrder}

\* Every sequence over an alphabet of length up to n.
SeqsUpTo(alphabet, n) == UNION {[1..k -> alphabet] : k \in 0..n}

UpdatesOver(contexts, users, texts) ==
    {[chat_id |-> c[1], message_thread_id |-> c[2], from_user |-> u, text |-> t] :
        c \in contexts, u \in users, t \in texts}

\* Every text from both users in the allowed context; an income text and an
\* order text from one user in each of the others.
Updates ==
    UpdatesOver({AllowedInputContext}, Users, Texts)
    \cup UpdatesOver(DeniedInputContexts, {"101"}, {TextPlus15, TextOrder})

\* Lines a completion is put together from; <<>> is "no such line".
IntervalLines == {<<>>, <<<<49, 52, 58, 48, 48>>>>}                      \* "14:00"
AddressLines == {<<>>, <<<<1091, 1083>>>>, <<<<1091, 1083, 32, 53>>>>}   \* "ul", "ul 5"
PhoneLines == {<<>>, <<<<49, 50, 51, 52, 53, 54, 55, 56>>>>,             \* "12345678"
               <<<<43, 51, 55, 53, 50, 57, 49, 50, 51, 52, 53, 54, 55>>>>} \* "+375291234567"
CommentLines == {<<>>, <<CommentMarker \o <<32, 1079, 1074>>>>}          \* marker + " zv"

BuiltCompletions ==
    {join(<<10>>, i \o a \o p \o c) :
        i \in IntervalLines, a \in AddressLines, p \in PhoneLines, c \in CommentLines}

\* The well-formed completion of the specification's example, a five-digit
\* line, a short 375 number, a marker with nothing after it, padded lines.
WellFormedCompletion ==
    join(<<10>>, << <<1089, 32, 49, 52, 58, 48, 48, 32, 1076, 1086, 32, 49, 54, 58, 48, 48>>,
                    <<1091, 1083, 46, 32, 1051, 1077, 1085, 1080, 1085, 1072, 32, 53>>,
                    <<43, 51, 55, 53, 50, 57, 49, 50, 51, 52, 53, 54, 55>>,
                    CommentMarker \o <<32, 1087, 1086, 1079, 1074, 1086, 1085, 1080, 1090, 1100>> >>)
ShortPhoneCompletion ==
    join(<<10>>, << <<49, 52, 58, 48, 48>>, <<1091, 1083, 32, 53>>, <<51, 55, 53, 49, 50, 51, 52>> >>)
EmptyCommentCompletion ==
    join(<<10>>, << <<1041, 1083, 1080, 1078, 1072, 1081, 1096, 1077, 1077>>,
                    <<32, 1091, 1083, 32, 53, 32>>,
                    <<56, 48, 50, 57, 49, 50, 51, 52, 53, 54, 55>>, CommentMarker >>)
FiveDigitCompletion == <<49, 50, 51, 52, 53>>

SpecialCompletions ==
    {WellFormedCompletion, ShortPhoneCompletion, EmptyCommentCompletion, FiveDigitCompletion}

Failures == {[kind |-> "raise", content |-> <<>>], [kind |-> "no_content", content |-> <<>>]}

ResultsOver(completions) ==
    Failures \cup {[kind |-> "completion", content |-> c] : c \in completions}

\* The results the provider gives in the whole-bot specification and in the
\* order-path specification.
FewResults ==
    ResultsOver({WellFormedCompletion, ShortPhoneCompletion, <<1091, 1083, 32, 53>>})
AllResults == ResultsOver(BuiltCompletions \cup SpecialCompletions)

-----------------------------------------------------------------------------
(* The bot: every kind of update, a few provider results.                  *)

Next ==
    \/ \E u \in Updates : handle_message(u)
    \/ \E ok \in BOOLEAN : send_message_returns(ok)
    \/ \E r \in FewResults : create_returns(r)
    \/ \E ok \in BOOLEAN : reply_text_returns(ok)
    \/ \E ok \in BOOLEAN : error_reply_returns(ok)
    \/ Tick

Spec == Init /\ [][Next]_vars

(* The bot with its command: the text handler and the handler of the      *)
(* income command, each started by the dispatcher for its kind of update.  *)

TextDohod == <<47, 1076, 1086, 1093, 1086, 1076>>          \* "/dohod"

\* The command from one user, in the allowed context and in each of the
\* others.
CommandUpdates ==
    UpdatesOver({AllowedInputContext} \cup DeniedInputContexts, {"101"}, {TextDohod})

NextCommands ==
    \/ \E u \in Updates : handle_message(u)
    \/ \E u \in CommandUpdates : handle_dohod(u)
    \/ \E ok \in BOOLEAN : send_message_returns(ok)
    \/ \E r \in FewResults : create_returns(r)
    \/ \E ok \in BOOLEAN : reply_text_returns(ok)
    \/ \E ok \in BOOLEAN : error_reply_returns(ok)
    \/ \E ok \in BOOLEAN : dohod_reply_returns(ok)
    \/ Tick

SpecCommands == Init /\ [][NextCommands]_vars

(* The entry of the text handler: one user in the allowed context, every  *)
(* short text over + space x and longer samples; a failing and a           *)
(* succeeding provider.                                                    *)

EntryAlphabet == {43, 32, 120}

TextOrderPlusPhone == <<49, 52, 58, 48, 48, 32, 1091, 1083, 32, 53, 32, 43, 51, 55, 53, 50, 57, 49, 50, 51, 52, 53, 54, 55>>  \* "14:00 ul 5 +375291234567"
TextOrderPlusLine == <<49, 52, 58, 48, 48, 32, 1091, 1083, 32, 53, 10, 43, 51, 55, 53, 50, 57, 49, 50, 51, 52, 53, 54, 55>>  \* the same, the phone on a line of its own
TextGluedPlus == <<1091, 1083, 32, 53, 43, 51, 55, 53, 50, 57, 49, 50, 51, 52, 53, 54, 55>>  \* "ul 5+375291234567"

EntryTexts ==
    SeqsUpTo(EntryAlphabet, MaxTextLen)
    \cup {TextPlus15, TextMinus5, TextPlusBlue, TextOrderPlusPhone, TextOrderPlusLine,
          TextGluedPlus}

EntryUpdates == UpdatesOver({AllowedInputContext}, {"101"}, EntryTexts)

EntryResults ==
    {[kind |-> "raise", content |-> <<>>],
     [kind |-> "completion", content |-> WellFormedCompletion]}

NextEntry ==
    \/ \E u \in EntryUpdates : handle_message(u)
    \/ \E ok \in BOOLEAN : send_message_returns(ok)
    \/ \E r \in EntryResults : create_returns(r)
    \/ \E ok \in BOOLEAN : reply_text_returns(ok)
    \/ \E ok \in BOOLEAN : error_reply_returns(ok)

SpecEntry == Init /\ [][NextEntry]_vars

(* The order path: order texts from the allowed context, every result.     *)

OrderUpdates ==
    UpdatesOver({AllowedInputContext}, {"101"}, {TextOrder, TextInnerMinus, TextBlue})

NextOrder ==
    \/ \E u \in OrderUpdates : handle_message(u)
    \/ \E r \in AllResults : create_returns(r)
    \/ \E ok \in BOOLEAN : reply_text_returns(ok)
    \/ \E ok \in BOOLEAN : error_reply_returns(ok)

SpecOrder == Init /\ [][NextOrder]_vars

-----------------------------------------------------------------------------
(* The price classifier alone: extract_amount applied to every short text  *)
(* over the characters its patterns look at, and to longer sample texts.   *)

\* + - space newline . and the Cyrillic letters m, k, M
ClassifierAlphabet == {43, 45, 32, 10, 46, 1084, 1082, 1052}

\* "mk dop sinyaya mk dop golubaya", "MK DOP KRASNAYA" and the like
ColourTexts == {PRICE_MAP[k].pattern[1].lit : k \in 3..Len(PRICE_MAP)}
ClassifierSamples ==
    Texts \cup ColourTexts
    \cup {<<43, 32>> \o t : t \in ColourTexts}
    \cup {TextBlue \o <<32>> \o PRICE_MAP[Len(PRICE_MAP)].pattern[1].lit,
          <<1052, 1050, 32, 1044, 1054, 1055, 32, 1050, 1056, 1040, 1057, 1053, 1040, 1071>>,
          <<1084, 1082, 32, 1076, 1086, 1087>>,
          <<120, 10, 45, 49>>}

ClassifierTexts == SeqsUpTo(ClassifierAlphabet, MaxTextLen) \cup ClassifierSamples

InitClassifier ==
    /\ today = 0
    /\ user_income_storage = EmptyStore
    /\ update \in {[NoUpdate EXCEPT !.text = t] : t \in ClassifierTexts}
    /\ pc = "idle"
    /\ locals = NoLocals
    /\ trace = NoTrace
    /\ credits = <<>>
    /\ suspended = <<>>

\* extract_amount(update.text), called up to twice on the same text.
classify ==
    /\ trace.classified < 2
    /\ locals' = [locals EXCEPT !.amount = extract_amount(update.text)]
    /\ trace' = [trace EXCEPT !.classified = @ + 1]
    /\ pc' = "done"
    /\ UNCHANGED <<today, user_income_storage, update, credits, suspended>>

NextClassifier == classify

SpecClassifier == InitClassifier /\ [][NextClassifier]_vars

-----------------------------------------------------------------------------
(* The ledger alone: any sequence of add_income and get_income_today calls *)
(* and day changes.                                                        *)

LedgerAmounts == {10, 15, 91}

\* total = add_income(user_id, amount)
credit(user_id, amount) ==
    /\ Len(credits) < MaxLedgerOps
    /\ user_income_storage' = add_income(user_income_storage, today, user_id, amount)
    /\ locals' = [NoLocals EXCEPT !.amount = amount,
                                  !.total_today = user_income_storage'[user_id][today]]
    /\ credits' = Append(credits, [user |-> user_id, day |-> today, amount |-> amount])
    /\ update' = [NoUpdate EXCEPT !.from_user = user_id]
    /\ pc' = "credited"
    /\ UNCHANGED <<today, trace, suspended>>

\* total = get_income_today(user_id); reading the outer defaultdict creates
\* the user's (empty) entry.
query(user_id) ==
    /\ user_income_storage' = TouchUser(user_income_storage, user_id)
    /\ locals' = [NoLocals EXCEPT
           !.total_today = get_income_today(user_income_storage, today, user_id)]
    /\ update' = [NoUpdate EXCEPT !.from_user = user_id]
    /\ pc' = "queried"
    /\ UNCHANGED <<today, trace, credits, suspended>>

NextLedger ==
    \/ \E u \in Users : \E a \in LedgerAmounts : credit(u, a)
    \/ \E u \in Users : query(u)
    \/ Tick

SpecLedger == Init /\ [][NextLedger]_vars

-----------------------------------------------------------------------------
(* Concurrent dispatch: the handlers as they run when the application      *)
(* processes updates concurrently.  All coroutines share one event loop,   *)
(* so a handler gives way to another only at an await (lines 118, 143,     *)
(* 150, 161, 165); the provider call of line 126 is not awaited and never  *)
(* gives way.  `suspended` holds the handlers parked at their await.       *)

Frame == [update |-> update, pc |-> pc, locals |-> locals, trace |-> trace]

\* The running handler has reached an await; the event loop parks it.
suspend ==
    /\ pc \in {"await_dm", "await_reply", "await_error_reply"}
    /\ Len(suspended) < MaxInFlight
    /\ suspended' = Append(suspended, Frame)
    /\ update' = NoUpdate
    /\ pc' = "idle"
    /\ locals' = NoLocals
    /\ trace' = NoTrace
    /\ UNCHANGED <<today, user_income_storage, credits>>

\* The event loop goes back to a parked handler, whose awaited send then
\* returns or raises.
resume(i) ==
    /\ pc \in {"idle", "done", "raised"}
    /\ i \in 1..Len(suspended)
    /\ update' = suspended[i].update
    /\ pc' = suspended[i].pc
    /\ locals' = suspended[i].locals
    /\ trace' = suspended[i].trace
    /\ suspended' = SubSeq(suspended, 1, i - 1) \o SubSeq(suspended, i + 1, Len(suspended))
    /\ UNCHANGED <<today, user_income_storage, credits>>

\* Income texts from both users in the allowed context.
IncomeUpdates == UpdatesOver({AllowedInputContext}, Users, {TextPlus15, TextPlusBlue})

NextInterleaved ==
    \/ \E u \in IncomeUpdates : handle_message(u)
    \/ \E ok \in BOOLEAN : send_message_returns(ok)
    \/ suspend
    \/ \E i \in 1..MaxInFlight : resume(i)
    \/ Tick

SpecInterleaved == Init /\ [][NextInterleaved]_vars

-----------------------------------------------------------------------------
(* The field extractor alone: extract_fields applied to every text of up   *)
(* to MaxLines lines drawn from lines that match one rule, several rules   *)
(* or none, and to the example of the specification.                       *)

ExtractorLines == {
    <<49, 52, 58, 48, 48>>,   \* "14:00"
    <<1042, 32, 1041, 1051, 1048, 1046, 1040, 1049, 1064, 1045, 1045>>,   \* "V BLIZHAJSHEE" (upper case)
    <<1050, 1086, 1084, 1084, 1077, 1085, 1090, 1072, 1088, 1080, 1081, 32, 1079, 1072, 1082, 1072, 1079, 1095, 1080, 1082, 1072, 58, 32, 1079, 1074, 32>>,   \* marker + " zv "
    <<32, 1091, 1083, 32, 53, 32>>,   \* " ul 5 " (padded)
    <<32>>,   \* a blank line
    <<49, 58, 50, 51, 32, 1050, 1086, 1084, 1084, 1077, 1085, 1090, 1072, 1088, 1080, 1081, 32, 1079, 1072, 1082, 1072, 1079, 1095, 1080, 1082, 1072, 58, 32, 49, 50, 51, 52, 53, 54, 55>>,   \* "1:23 " + marker + " 1234567": rules 1, 2, 3
    <<1090, 32, 49, 50, 51, 45, 52, 53, 45, 54, 55>>,   \* "t 123-45-67": no seven digits in a row
    <<1090, 46, 32, 43, 56, 32, 48, 50, 57, 32, 49, 50, 51, 52, 53, 54, 55, 46>>   \* "t. +8 029 1234567."
}

\* Further lines, tried alone and next to one other line.
ExtraLines == {
    <<1082, 1072, 1082, 32, 1084, 1086, 1078, 1085, 1086, 32, 1089, 1082, 1086, 1088, 1077, 1077>>,   \* "kak mozhno skoree"
    <<1050, 1086, 1084, 1084, 1077, 1085, 1090, 1072, 1088, 1080, 1081, 32, 1079, 1072, 1082, 1072, 1079, 1095, 1080, 1082, 1072, 58, 32, 49, 50, 51, 52, 53, 54, 55>>,   \* marker + " 1234567": rules 2, 3
    <<49, 50, 58, 51>>,   \* "12:3": one digit after the colon
    <<1082, 1086, 1084, 1084, 1077, 1085, 1090, 1072, 1088, 1080, 1081, 32, 1079, 1072, 1082, 1072, 1079, 1095, 1080, 1082, 1072, 58, 32, 120>>   \* the marker in lower case + " x"
}

\* The texts of exactly n lines.
RECURSIVE TextsOfLines(_)
TextsOfLines(n) ==
    IF n = 1 THEN ExtractorLines
    ELSE {t \o <<10>> \o l : t \in TextsOfLines(n - 1), l \in ExtractorLines}

\* "s 14:00 do 16:00", "ul. Lenina 5", "+375291234567",
\* marker + " pozvonit' za 10 minut"
ExampleCompletion ==
    join(<<10>>, << <<1089, 32, 49, 52, 58, 48, 48, 32, 1076, 1086, 32, 49, 54, 58, 48, 48>>,
                    <<1091, 1083, 46, 32, 1051, 1077, 1085, 1080, 1085, 1072, 32, 53>>,
                    <<43, 51, 55, 53, 50, 57, 49, 50, 51, 52, 53, 54, 55>>,
                    <<1050, 1086, 1084, 1084, 1077, 1085, 1090, 1072, 1088, 1080, 1081, 32, 1079, 1072, 1082, 1072, 1079, 1095, 1080, 1082, 1072, 58, 32, 1087, 1086, 1079, 1074, 1086, 1085, 1080, 1090, 1100, 32, 1079, 1072, 32, 49, 48, 32, 1084, 1080, 1085, 1091, 1090>> >>)

ExtractorTexts ==
    {<<>>, ExampleCompletion}
    \cup UNION {TextsOfLines(n) : n \in 1..MaxLines}
    \cup ExtraLines
    \cup {l \o <<10>> \o m : l \in ExtraLines, m \in ExtractorLines \cup ExtraLines}
    \cup {m \o <<10>> \o l : l \in ExtraLines, m \in ExtractorLines}

InitExtractor ==
    /\ today = 0
    /\ user_income_storage = EmptyStore
    /\ update = NoUpdate
    /\ pc = "idle"
    /\ locals \in {[NoLocals EXCEPT !.parsed = t] : t \in ExtractorTexts}
    /\ trace = NoTrace
    /\ credits = <<>>
    /\ suspended = <<>>

\* data = extract_fields(parsed)
extract ==
    /\ pc = "idle"
    /\ locals' = [locals EXCEPT !.data = extract_fields(locals.parsed)]
    /\ pc' = "extracted"
    /\ UNCHANGED <<today, user_income_storage, update, trace, credits, suspended>>

NextExtractor == extract

SpecExtractor == InitExtractor /\ [][NextExtractor]_vars

-----------------------------------------------------------------------------
(* The phone validator alone: is_valid_phone applied to numbers put        *)
(* together from leading digits, up to MaxTail further digits and          *)
(* punctuation, and to the examples of the specification.                  *)

\* 375 8029 8044 8033 8025, and 7999 37 802 80 376 0375 and nothing
PhoneHeads == {<<51, 55, 53>>,
               <<56, 48, 50, 57>>,
               <<56, 48, 52, 52>>,
               <<56, 48, 51, 51>>,
               <<56, 48, 50, 53>>,
               <<55, 57, 57, 57>>,
               <<51, 55>>,
               <<56, 48, 50>>,
               <<56, 48>>,
               <<51, 55, 54>>,
               <<48, 51, 55, 53>>,
               <<>>}

\* 1, 12, 123, ...: n further digits
PhoneTail(n) == <<>> \o [i \in 1..n |-> 48 + (i % 10)]

\* A dash after every character: "3-7-5-"
Dashed(s) == <<>> \o [i \in 1..(2 * Len(s)) |-> IF i % 2 = 1 THEN s[(i + 1) \div 2] ELSE 45]

\* head tail, +head tail, "(head) tail", dashed head and tail.
PhoneForms(head, tail) ==
    {head \o tail,
     <<43>> \o head \o tail,
     <<40>> \o head \o <<41, 32>> \o tail,
     Dashed(head \o tail)}

\* "+375291234567", "80291234567", "+79991234567", "12345"
PhoneExamples == {<<43, 51, 55, 53, 50, 57, 49, 50, 51, 52, 53, 54, 55>>,
                  <<56, 48, 50, 57, 49, 50, 51, 52, 53, 54, 55>>,
                  <<43, 55, 57, 57, 57, 49, 50, 51, 52, 53, 54, 55>>,
                  <<49, 50, 51, 52, 53>>}

Phones ==
    PhoneExamples
    \cup UNION {PhoneForms(h, PhoneTail(n)) : h \in PhoneHeads, n \in 0..MaxTail}

InitPhone ==
    /\ today = 0
    /\ user_income_storage = EmptyStore
    /\ update = NoUpdate
    /\ pc = "idle"
    /\ locals \in {[NoLocals EXCEPT !.data.phone = p] : p \in Phones}
    /\ trace = NoTrace
    /\ credits = <<>>
    /\ suspended = <<>>

\* is_valid_phone(data["phone"]); the result is kept in pc.
validate ==
    /\ pc = "idle"
    /\ pc' = IF is_valid_phone(locals.data.phone) THEN "valid" ELSE "invalid"
    /\ UNCHANGED <<today, user_income_storage, update, locals, trace, credits, suspended>>

NextPhone == validate

SpecPhone == InitPhone /\ [][NextPhone]_vars

-----------------------------------------------------------------------------
(* Properties.                                                             *)

\* The allowed-context table as a set of (chat, thread) pairs, and the pair
\* of an update, with thread 0 when the update has no thread.
AllowedPairs == {<<"-1002079167705", 7340>>, <<"-1002387655137", 9>>,
                 <<"-1002423500927", 4>>, <<"-1002178818697", 4>>}
PairOf(u) == <<u.chat_id, IF u.message_thread_id = <<>> THEN 0 ELSE u.message_thread_id[1]>>
Listed(u) == PairOf(u) \in AllowedPairs

\* A step in which the dispatcher hands an update to handle_message.
HandlerStarts == pc \in {"idle", "done", "raised"} /\ today' = today

\* The sum of the amounts logged for a user and a day.
RECURSIVE SumFor(_, _, _)
SumFor(log, user, day) ==
    IF log = <<>> THEN 0
    ELSE (IF Head(log).user = user /\ Head(log).day = day THEN Head(log).amount ELSE 0)
         + SumFor(Tail(log), user, day)

\* C1: an update whose (chat, thread) pair is not in the table ends the
\* handler at once: the classifier and the provider are not called, the
\* ledger is unchanged, nothing is logged and nothing is sent.
C1_DeniedContextIsSilent ==
    [][(HandlerStarts /\ ~Listed(update')) =>
          /\ pc' = "done"
          /\ user_income_storage' = user_income_storage
          /\ credits' = credits
          /\ trace'.classified = 0
          /\ trace'.provider_calls = 0
          /\ trace'.logged = 0
          /\ trace'.sends = <<>>]_vars

\* An income text from a listed chat with another chat's thread is dropped
\* while the ledger holds a credit.
C1_Witness ==
    /\ pc = "done"
    /\ update.chat_id \in DOMAIN ALLOWED_CONTEXTS
    /\ ~Listed(update)
    /\ update.text = TextPlus15
    /\ trace = NoTrace
    /\ Len(credits) > 0

\* An allowed sign-token text for which the classifier returns 0.
UnpricedSignText(u) ==
    Listed(u) /\ HasSignToken(u.text) /\ extract_amount(u.text) = 0

IncomeMessage(amount_digits, total) ==
    <<43>> \o amount_digits \o <<32, 66, 89, 78, 46, 10, 1044, 1086, 1093, 1086, 1076, 58, 32>>
    \o IntToStr(total) \o <<32, 66, 89, 78>>

\* The handler credits `amount` to the sender's bucket of today and
\* attempts the direct message with that amount, written amount_digits.
CreditsAndNotifies(amount, amount_digits) ==
    LET u == update'
        before == Bucket(user_income_storage, u.from_user, today)
    IN  /\ Bucket(user_income_storage', u.from_user, today) = before + amount
        /\ credits' = Append(credits, [user |-> u.from_user, day |-> today,
                                       amount |-> amount])
        /\ pc' = "await_dm"
        /\ trace'.sends = <<[via |-> "send_message", chat |-> u.from_user,
                             kind |-> "income",
                             text |-> IncomeMessage(amount_digits, before + amount),
                             status |-> "pending"]>>

\* C3 as stated: "+15" in an allowed context credits 15.
C3_Plus15Credits15 ==
    [][(HandlerStarts /\ Listed(update') /\ update'.text = TextPlus15) =>
          CreditsAndNotifies(15, <<49, 53>>)]_vars

\* C3, amended: "+15" in an allowed context credits 10, the amount of the
\* rule \+|^-, the only rule the text matches (the digits are not read),
\* and a direct message is attempted with that amount.
C3_Plus15Credits10 ==
    [][(HandlerStarts /\ Listed(update') /\ update'.text = TextPlus15) =>
          CreditsAndNotifies(10, <<49, 48>>)]_vars

\* "+15" was credited a second time to the same bucket.
C3_Witness ==
    /\ pc = "await_dm"
    /\ Listed(update)
    /\ update.text = TextPlus15
    /\ locals.amount = 10
    /\ locals.total_today > 10

\* The direct message of the handler was attempted and failed.
DirectSendFailed ==
    /\ Len(trace.sends) >= 1
    /\ trace.sends[1].via = "send_message"
    /\ trace.sends[1].status = "failed"

\* C4: when the direct message fails, the handler has returned normally,
\* nothing else was sent and nothing was retried, the provider was not
\* called, nothing was logged, and the credit stands: the sender's bucket
\* is the sum of the credits logged for it, this one included, and that is
\* what get_income_today returns while the day lasts.
C4_DirectSendFailureIsSwallowed ==
    DirectSendFailed =>
        /\ pc = "done"
        /\ Len(trace.sends) = 1
        /\ trace.provider_calls = 0
        /\ trace.logged = 0
        /\ LET last == credits[Len(credits)]
           IN  /\ last.user = update.from_user
               /\ last.amount = locals.amount
               /\ last.amount > 0
               /\ Bucket(user_income_storage, last.user, last.day)
                     = SumFor(credits, last.user, last.day)
               /\ today = last.day =>
                     get_income_today(user_income_storage, today, last.user)
                        = SumFor(credits, last.user, today)

\* The direct message failed for a credit on top of an earlier one.
C4_Witness ==
    /\ DirectSendFailed
    /\ pc = "done"
    /\ today = credits[Len(credits)].day
    /\ get_income_today(user_income_storage, today, update.from_user) > locals.amount

\* C5: get_income_today of every user is the sum of the amounts credited to
\* that user on the current day, whatever was credited to other users or on
\* other days, and add_income returns the running sum of the bucket it
\* credited.
C5_TodayTotalIsTodaysSum ==
    /\ \A u \in Users :
          get_income_today(user_income_storage, today, u) = SumFor(credits, u, today)
    /\ pc = "credited" =>
          LET last == credits[Len(credits)]
          IN  locals.total_today = SumFor(credits, last.user, last.day)

\* A user credited yesterday and twice today; the other user never.
C5_Witness ==
    /\ pc = "credited"
    /\ Len(credits) = 3
    /\ credits[1].day < today
    /\ credits[2].day = today /\ credits[3].day = today
    /\ credits[1].user = credits[3].user /\ credits[2].user = credits[3].user
    /\ locals.total_today = credits[2].amount + credits[3].amount

\* The amounts of the rules whose pattern occurs in the lower-cased text.
MatchingAmounts(text) ==
    {PRICE_MAP[k].amount :
        k \in {j \in 1..Len(PRICE_MAP) : re_search(PRICE_MAP[j].pattern, lower(text))}}

GenericAmount == 15
ColourAmounts == {23, 31, 40, 48, 57, 65, 74, 82, 91}

\* C6: every call of extract_amount returns the largest amount among the
\* rules that match the lower-cased text, and 0 iff none matches; when a
\* colour rule and the generic rule both match, a colour rule's amount is
\* returned; "mk dop sinyaya" gives 23.
C6_ClassifierReturnsLargestMatch ==
    trace.classified > 0 =>
        LET m == MatchingAmounts(update.text)
            a == locals.amount
        IN  /\ (m = {}) <=> (a = 0)
            /\ m # {} => (a \in m /\ \A x \in m : x <= a)
            /\ (GenericAmount \in m /\ m \cap ColourAmounts # {}) => a \in ColourAmounts
            /\ update.text = TextBlue => a = 23

\* "+ mk dop sinyaya" matches three rules and was classified twice as 23.
C6_Witness ==
    /\ trace.classified = 2
    /\ update.text = TextPlusBlue
    /\ MatchingAmounts(update.text) = {10, 15, 23}
    /\ locals.amount = 23

\* The provider returned a completion whose phone is present and invalid.
InvalidPhoneExtracted ==
    /\ trace.provider = "returned"
    /\ locals.data.phone # <<>>
    /\ ~is_valid_phone(locals.data.phone)

\* C7 as stated: with a present, invalid phone the only reply is the phone
\* rejection.
C7_OnlyReplyIsPhoneRejection ==
    InvalidPhoneExtracted =>
        /\ Len(trace.sends) = 1
        /\ trace.sends[1].kind = "phone_rejected"

\* C7, amended: with a present, invalid phone the first reply is the phone
\* rejection, sent into the chat of the message, whatever else is missing;
\* the missing-fields and accepted messages are never sent; a second reply
\* is sent only when sending the rejection raised, and it is the error
\* reply of the except clause.
C7_PhoneRejectionComesFirst ==
    InvalidPhoneExtracted =>
        /\ Len(trace.sends) \in {1, 2}
        /\ trace.sends[1].via = "reply_text"
        /\ trace.sends[1].chat = update.chat_id
        /\ trace.sends[1].kind = "phone_rejected"
        /\ \A i \in 1..Len(trace.sends) :
              trace.sends[i].kind \notin {"missing_fields", "accepted"}
        /\ Len(trace.sends) = 2 =>
              /\ trace.sends[1].status = "failed"
              /\ trace.sends[2].kind = "processing_error"

\* The rejection was delivered for an order that also lacks an address
\* with a house number and an interval.
C7_Witness ==
    /\ InvalidPhoneExtracted
    /\ pc = "done"
    /\ locals.data.address = <<>>
    /\ locals.data.interval = <<>>
    /\ trace.sends[1].status = "delivered"

\* The labels of the fields an extracted record lacks, in the order
\* address, interval, phone.
NoDigitIn(s) == \A i \in 1..Len(s) : s[i] \notin 48..57
ExpectedMissing(d) ==
    LET all == <<[label |-> LabelAddress, lacks |-> (d.address = <<>> \/ NoDigitIn(d.address))],
                 [label |-> LabelInterval, lacks |-> (d.interval = <<>>)],
                 [label |-> LabelPhone, lacks |-> (d.phone = <<>>)]>>
        Lacking(e) == e.lacks
        kept == SelectSeq(all, Lacking)
    IN  [i \in 1..Len(kept) |-> kept[i].label]

\* C8: when the phone is empty or valid and some field is missing, the
\* first reply is the missing-fields message, and the list it carries is
\* exactly the missing fields in the order address, interval, phone.
C8_MissingFieldsAreListedExactly ==
    (/\ trace.provider = "returned"
     /\ locals.data.phone = <<>> \/ is_valid_phone(locals.data.phone)
     /\ ExpectedMissing(locals.data) # <<>>) =>
        /\ locals.missing = ExpectedMissing(locals.data)
        /\ trace.sends[1].via = "reply_text"
        /\ trace.sends[1].chat = update.chat_id
        /\ trace.sends[1].kind = "missing_fields"
        /\ trace.sends[1].text = join(<<44, 32>>, ExpectedMissing(locals.data))

\* An address with a house number, no interval and no phone: the interval
\* and the phone are listed, the address is not.
C8_Witness ==
    /\ trace.provider = "returned"
    /\ pc = "done"
    /\ HasDigit(locals.data.address)
    /\ locals.data.interval = <<>>
    /\ locals.data.phone = <<>>
    /\ trace.sends[1].kind = "missing_fields"
    /\ trace.sends[1].text = LabelInterval \o <<44, 32>> \o LabelPhone

\* An extracted record that lacks nothing and whose phone is valid.
Complete(d) ==
    /\ d.address # <<>> /\ ~NoDigitIn(d.address)
    /\ d.interval # <<>>
    /\ d.phone # <<>> /\ is_valid_phone(d.phone)

\* C9: the accepted reply is sent iff the provider call succeeded and the
\* extracted record is complete with a valid phone; it is then the first
\* reply and its text has exactly four lines: interval, address, phone, and
\* the marker, a space and the comment or, for an empty comment, the dash.
C9_AcceptedIffCompleteAndValid ==
    /\ (\E i \in 1..Len(trace.sends) : trace.sends[i].kind = "accepted")
          <=> (trace.provider = "returned" /\ Complete(locals.data))
    /\ \A i \in 1..Len(trace.sends) :
          trace.sends[i].kind = "accepted" =>
             /\ i = 1
             /\ trace.sends[i].via = "reply_text"
             /\ split(trace.sends[i].text, 10) =
                   <<locals.data.interval, locals.data.address, locals.data.phone,
                     CommentMarker \o <<32>> \o
                        (IF locals.data.comment = <<>> THEN <<8212>>
                         ELSE locals.data.comment)>>

\* An order without a comment was accepted and the reply delivered.
C9_Witness ==
    /\ pc = "done"
    /\ Complete(locals.data)
    /\ locals.data.comment = <<>>
    /\ trace.sends[1].kind = "accepted"
    /\ trace.sends[1].status = "delivered"

\* C10: when the provider call or the reading of its response raises, the
\* error is logged once, the one thing sent is the error reply into the
\* chat of the message, the provider has been called once, and the handler
\* only has that reply to finish.
C10_ProviderFailureIsAnsweredOnce ==
    trace.provider \in {"raise", "no_content"} =>
        /\ trace.logged = 1
        /\ trace.provider_calls = 1
        /\ Len(trace.sends) = 1
        /\ trace.sends[1].via = "reply_text"
        /\ trace.sends[1].chat = update.chat_id
        /\ trace.sends[1].kind = "processing_error"
        /\ pc \in {"await_error_reply", "done", "raised"}
        /\ pc = "await_error_reply" <=> trace.sends[1].status = "pending"

\* The response could not be read and the error reply was delivered.
C10_Witness ==
    /\ trace.provider = "no_content"
    /\ pc = "done"
    /\ trace.sends[1].status = "delivered"

\* A step in which something fails while a message is handled: the provider
\* call or the reading of its response raises, or a send that was pending
\* raises (the direct message, a reply of the try block, the error reply).
FailureStep ==
    \/ trace.provider = "pending" /\ trace'.provider \in {"raise", "no_content"}
    \/ \E i \in 1..Len(trace.sends) :
          /\ i <= Len(trace'.sends)
          /\ trace.sends[i].status = "pending"
          /\ trace'.sends[i].status = "failed"

\* C11: whatever fails while a message is handled, no exception leaves
\* handle_message and the failure leaves the ledger as it was.
C11_ErrorsAreContained ==
    [][FailureStep => (pc' # "raised" /\ user_income_storage' = user_income_storage)]_vars

\* C12: while the provider call of one message has not returned, every
\* other update can still be handed to handle_message, which filters it
\* and, on the income path, classifies and credits it.
C12_HungProviderStallsOnlyItsMessage ==
    (pc = "call_provider" /\ Len(credits) < MaxCredits) =>
        \A u \in Updates : ENABLED handle_message(u)

\* The replies into the chat of the message attempted for the update being
\* handled, in the order of the attempts.
IsReply(send) == send.via = "reply_text"
Replies == SelectSeq(trace.sends, IsReply)
OrderReplyKinds == {"accepted", "missing_fields", "phone_rejected"}

\* C13 as stated: over the handling of one message at most one reply is
\* attempted, also when a reply send fails.
C13_AtMostOneReplyAttempt ==
    Len(Replies) <= 1

\* C13, amended: at most one of the accepted, missing-fields and
\* phone-rejection replies is attempted, every reply goes to the chat of
\* the message, and at most one reply is delivered; a second reply is
\* attempted only when the first was one of those three and its send
\* raised, it is the generic error reply, and nothing follows it.
C13_SecondReplyOnlyAfterFailedReply ==
    /\ Len(Replies) <= 2
    /\ \A i \in 1..Len(Replies) : Replies[i].chat = update.chat_id
    /\ Cardinality({i \in 1..Len(Replies) : Replies[i].kind \in OrderReplyKinds}) <= 1
    /\ Cardinality({i \in 1..Len(Replies) : Replies[i].status = "delivered"}) <= 1
    /\ Len(Replies) = 2 =>
          /\ Replies[1].kind \in OrderReplyKinds
          /\ Replies[1].status = "failed"
          /\ Replies[2].kind = "processing_error"
    /\ (pc \in {"done", "raised"} /\ Len(Replies) = 1 /\ Replies[1].status = "failed") =>
          Replies[1].kind = "processing_error"

\* The accepted reply raised, and the error reply sent in its place was
\* delivered.
C13_Witness ==
    /\ pc = "done"
    /\ Len(Replies) = 2
    /\ Replies[1].kind = "accepted"
    /\ Replies[1].status = "failed"
    /\ Replies[2].status = "delivered"

\* No handler is running or parked.
AllHandlersFinished == suspended = <<>> /\ pc \in {"idle", "done", "raised"}

\* C14: with handlers parked at their awaits while others run, no credit is
\* lost: every (user, day) bucket is the sum of the amounts of the income
\* messages handled for that user on that day - at every moment, and so
\* after all handlers have finished, whatever the interleaving was - and a
\* step that credits adds exactly its amount to the bucket as it stands.
C14_NoCreditIsLost ==
    /\ [](\A u \in Users : \A d \in 0..MaxDay :
             Bucket(user_income_storage, u, d) = SumFor(credits, u, d))
    /\ [][Len(credits') > Len(credits) =>
             LET c == credits'[Len(credits')]
             IN  Bucket(user_income_storage', c.user, c.day)
                    = Bucket(user_income_storage, c.user, c.day) + c.amount]_vars

\* A handler of user 101 is parked at its direct send with the total 10 it
\* read; a later handler credited the same user on the same day and has
\* finished.
C14_Witness ==
    /\ Len(suspended) = 1
    /\ suspended[1].pc = "await_dm"
    /\ suspended[1].update.from_user = "101"
    /\ suspended[1].locals.total_today = 10
    /\ pc = "done"
    /\ update.from_user = "101"
    /\ Len(credits) = 2
    /\ credits[2].day = credits[1].day
    /\ Bucket(user_income_storage, "101", credits[1].day) = 10 + locals.amount

\* The rule of the claim a line falls under: the first of interval (a
\* digit, a colon and two digits in a row, or one of the two phrases in any
\* case), comment (the marker), phone (seven digits in a row), address.
ShapedLikeTime(line) ==
    \E i \in 1..(Len(line) - 3) :
        /\ line[i] \in 48..57 /\ line[i + 1] = 58
        /\ line[i + 2] \in 48..57 /\ line[i + 3] \in 48..57
HasPhrase(line, phrase) ==
    \E i \in 1..(Len(line) - Len(phrase) + 1) :
        \A k \in 1..Len(phrase) : LowerChar(line[i + k - 1]) = phrase[k]
MarkerAt(line, i) ==
    /\ i + Len(CommentMarker) - 1 <= Len(line)
    /\ SubSeq(line, i, i + Len(CommentMarker) - 1) = CommentMarker
HasMarker(line) == \E i \in 1..Len(line) : MarkerAt(line, i)
SevenDigitsInARow(line) ==
    \E i \in 1..(Len(line) - 6) : \A k \in 0..6 : line[i + k] \in 48..57
RuleOf(line) ==
    IF ShapedLikeTime(line) \/ HasPhrase(line, SoonWord) \/ HasPhrase(line, AsapWords)
    THEN "interval"
    ELSE IF HasMarker(line) THEN "comment"
    ELSE IF SevenDigitsInARow(line) THEN "phone"
    ELSE "address"

\* What a line leaves in the field of its rule: the stripped line; for the
\* phone its digits and plus signs; for the comment what follows the
\* marker, stripped.
ValueOf(line) ==
    CASE RuleOf(line) = "comment" ->
            LET at == CHOOSE i \in 1..Len(line) :
                        /\ MarkerAt(line, i)
                        /\ \A j \in (i + 1)..Len(line) : ~MarkerAt(line, j)
            IN  strip(SubSeq(line, at + Len(CommentMarker), Len(line)))
      [] RuleOf(line) = "phone" ->
            LET keep == {i \in 1..Len(line) : line[i] \in 48..57 \/ line[i] = 43}
                Nth(n) == CHOOSE i \in keep : Cardinality({j \in keep : j < i}) = n - 1
            IN  [n \in 1..Cardinality(keep) |-> line[Nth(n)]]
      [] OTHER -> strip(line)

FieldNames == {"interval", "address", "phone", "comment"}

\* The record after the first k lines have been classified.
FieldsAfter(lines, k) == ClassifyLines(NoFields, SubSeq(lines, 1, k), 1)

\* C15: every line goes to the field of the first rule it matches and
\* changes no other field; every field holds what the last line of its
\* rule left, and is empty when no line has its rule; the example of the
\* specification gives its four fields.
C15_LinesAreClassifiedByFirstRule ==
    pc = "extracted" =>
        LET lines == split(strip(locals.parsed), 10)
            data == locals.data
        IN  /\ \A f \in FieldNames :
                  LET of_f == {k \in 1..Len(lines) : RuleOf(lines[k]) = f}
                  IN  IF of_f = {} THEN data[f] = <<>>
                      ELSE data[f] = ValueOf(lines[CHOOSE k \in of_f : \A j \in of_f : j <= k])
            /\ \A k \in 1..Len(lines) :
                  \A f \in FieldNames \ {RuleOf(lines[k])} :
                      FieldsAfter(lines, k)[f] = FieldsAfter(lines, k - 1)[f]
            /\ locals.parsed = ExampleCompletion =>
                  data = [interval |-> <<1089, 32, 49, 52, 58, 48, 48, 32, 1076, 1086, 32, 49, 54, 58, 48, 48>>,
                          address |-> <<1091, 1083, 46, 32, 1051, 1077, 1085, 1080, 1085, 1072, 32, 53>>,
                          phone |-> <<43, 51, 55, 53, 50, 57, 49, 50, 51, 52, 53, 54, 55>>,
                          comment |-> <<1087, 1086, 1079, 1074, 1086, 1085, 1080, 1090, 1100, 32, 1079, 1072, 32, 49, 48, 32, 1084, 1080, 1085, 1091, 1090>>]

\* Three lines: one that matches the interval, comment and phone rules, a
\* blank one, and an interval that replaces the first.
C15_Witness ==
    /\ pc = "extracted"
    /\ LET lines == split(strip(locals.parsed), 10)
       IN  /\ Len(lines) = 3
           /\ HasMarker(lines[1]) /\ SevenDigitsInARow(lines[1]) /\ RuleOf(lines[1]) = "interval"
           /\ strip(lines[2]) = <<>>
           /\ RuleOf(lines[3]) = "interval"
    /\ locals.data = [interval |-> <<49, 52, 58, 48, 48>>, address |-> <<>>,
                      phone |-> <<>>, comment |-> <<>>]

\* The digits of a string, in order.
RECURSIVE DigitsOnly(_)
DigitsOnly(raw) ==
    IF raw = <<>> THEN <<>>
    ELSE (IF Head(raw) \in 48..57 THEN <<Head(raw)>> ELSE <<>>) \o DigitsOnly(Tail(raw))

\* 375, 8029, 8044, 8033, 8025
RegionPrefixes == {<<51, 55, 53>>, <<56, 48, 50, 57>>, <<56, 48, 52, 52>>,
                   <<56, 48, 51, 51>>, <<56, 48, 50, 53>>}

BeginsWith(d, p) == Len(d) >= Len(p) /\ SubSeq(d, 1, Len(p)) = p

\* C16: is_valid_phone is true iff the digits of the string begin with one
\* of the five prefixes and are at least nine; "+375291234567" and
\* "80291234567" are valid, "+79991234567" and "12345" are not.
C16_ValidIffRegionalPrefixAndNineDigits ==
    pc \in {"valid", "invalid"} =>
        LET raw == locals.data.phone
            d == DigitsOnly(raw)
        IN  /\ pc = "valid" <=>
                  ((\E p \in RegionPrefixes : BeginsWith(d, p)) /\ Len(d) >= 9)
            /\ raw \in {<<43, 51, 55, 53, 50, 57, 49, 50, 51, 52, 53, 54, 55>>,
                        <<56, 48, 50, 57, 49, 50, 51, 52, 53, 54, 55>>} => pc = "valid"
            /\ raw \in {<<43, 55, 57, 57, 57, 49, 50, 51, 52, 53, 54, 55>>,
                        <<49, 50, 51, 52, 53>>} => pc = "invalid"

\* A number written with punctuation whose digits are 375 and six more,
\* nine in all, was found valid.
C16_Witness ==
    /\ pc = "valid"
    /\ Len(DigitsOnly(locals.data.phone)) = 9
    /\ Len(locals.data.phone) > 9
    /\ BeginsWith(DigitsOnly(locals.data.phone), <<51, 55, 53>>)

\* C17: whatever the kind of the update - a text or the income command -
\* nothing is sent for an update whose (chat, thread) pair is not in the
\* table.
C17_OnlyAllowedContextsAreAnswered ==
    ~Listed(update) => trace.sends = <<>>

\* A plus sign at the start of the text or right after a whitespace
\* character.
PlusToken(text) ==
    \E i \in 1..Len(text) : text[i] = 43 /\ (i = 1 \/ IsSpace(text[i - 1]))

\* C18: an allowed text with a plus sign at its start or after whitespace
\* is handled as income, even if it reads like an order: the classifier
\* is called and returns at least 10, the sender's bucket of today grows
\* by that amount, the one thing sent is the direct message, and for as
\* long as the message is handled the provider is not called and no reply
\* is sent.
C18_PlusTokenIsAlwaysIncome ==
    /\ [][(HandlerStarts /\ Listed(update') /\ PlusToken(update'.text)) =>
             /\ pc' = "await_dm"
             /\ trace'.classified = 1
             /\ locals'.amount >= 10
             /\ Bucket(user_income_storage', update'.from_user, today)
                   = Bucket(user_income_storage, update'.from_user, today) + locals'.amount
             /\ trace'.provider_calls = 0
             /\ Len(trace'.sends) = 1
             /\ trace'.sends[1].via = "send_message"]_vars
    /\ []((Listed(update) /\ PlusToken(update.text)) =>
             /\ trace.provider = "not_called"
             /\ trace.provider_calls = 0
             /\ \A i \in 1..Len(trace.sends) :
                   trace.sends[i].via = "send_message" /\ trace.sends[i].kind = "income")

\* "14:00 ul 5 +375291234567", a complete order but for the plus sign, was
\* credited as income for the second time and the handler has returned.
C18_Witness ==
    /\ pc = "done"
    /\ update.text = TextOrderPlusPhone
    /\ PlusToken(update.text)
    /\ locals.amount = 10
    /\ locals.total_today = 20
    /\ Len(trace.sends) = 1

\* The (user, day) buckets a step changes.
ChangedBuckets ==
    {b \in Users \X (0..MaxDay) :
        Bucket(user_income_storage', b[1], b[2]) # Bucket(user_income_storage, b[1], b[2])}

\* The handler is on the order path: at the provider call or at a reply.
OnOrderPath(at) == at \in {"call_provider", "await_reply", "await_error_reply"}

\* The step starts a handler, which credits the sender's bucket of today,
\* and no other, with what the classifier returns for the text.
CreditsSenderOnce ==
    /\ pc \in {"idle", "done", "raised"}
    /\ pc' = "await_dm"
    /\ ChangedBuckets = {<<update'.from_user, today>>}
    /\ locals'.amount = extract_amount(update'.text)
    /\ Bucket(user_income_storage', update'.from_user, today)
          = Bucket(user_income_storage, update'.from_user, today) + locals'.amount
    /\ Len(credits') = Len(credits) + 1
    /\ trace'.provider_calls = 0

\* C19: a step changes the ledger only when a handler starts and takes the
\* income path - so once per message at most - and then only the sender's
\* bucket of today changes, by exactly the amount the classifier returns
\* for the text; a step to, on or from the order path changes no bucket;
\* and a message that was credited has not called the provider.
C19_OnlyIncomeCreditChangesLedger ==
    /\ [][ChangedBuckets # {} => CreditsSenderOnce]_vars
    /\ [][ChangedBuckets = {} => user_income_storage' = user_income_storage]_vars
    /\ [][(OnOrderPath(pc) \/ OnOrderPath(pc')) => ChangedBuckets = {}]_vars
    /\ [](\A i \in 1..Len(trace.sends) :
             trace.sends[i].kind = "income" =>
                trace.provider_calls = 0 /\ trace.provider = "not_called")

\* A second credit, to another user than the first: the first user's
\* bucket is as the first credit left it.
C19_Witness ==
    /\ pc = "await_dm"
    /\ Len(credits) = 2
    /\ credits[1].user # credits[2].user
    /\ credits[1].day = credits[2].day
    /\ Bucket(user_income_storage, credits[1].user, credits[1].day) = credits[1].amount
    /\ Bucket(user_income_storage, credits[2].user, credits[2].day) = credits[2].amount

\* The amounts of the rule table.
RuleAmounts == {10, 15, 23, 31, 40, 48, 57, 65, 74, 82, 91}

\* C20: every amount credited is an amount of the rule table, also when
\* the text begins with a minus sign, which credits like a plus sign;
\* every bucket is non-negative, and a bucket, once created, stays and
\* never decreases.
C20_CreditsArePositiveRuleAmounts ==
    /\ [](\A i \in 1..Len(credits) : credits[i].amount \in RuleAmounts)
    /\ [](\A u \in DOMAIN user_income_storage :
             \A d \in DOMAIN user_income_storage[u] : user_income_storage[u][d] >= 0)
    /\ [][\A u \in DOMAIN user_income_storage :
             /\ u \in DOMAIN user_income_storage'
             /\ \A d \in DOMAIN user_income_storage[u] :
                   /\ d \in DOMAIN user_income_storage'[u]
                   /\ user_income_storage'[u][d] >= user_income_storage[u][d]]_vars
    /\ [][(HandlerStarts /\ Listed(update') /\ Len(update'.text) > 0 /\ update'.text[1] = 45) =>
             /\ locals'.amount \in RuleAmounts
             /\ Bucket(user_income_storage', update'.from_user, today)
                   = Bucket(user_income_storage, update'.from_user, today) + locals'.amount]_vars

\* "-5" was credited 10 on the second day to a user who has a bucket of
\* the first day, and the handler has returned.
C20_Witness ==
    /\ pc = "done"
    /\ update.text = TextMinus5
    /\ today = 1
    /\ locals.amount = 10
    /\ Bucket(user_income_storage, update.from_user, 0) > 0
    /\ Bucket(user_income_storage, update.from_user, 1) > 0

====
